---- MODULE Spec2Model ----
(***************************************************************************)
(* Model of src/txn/lock_manager.cc: the two lock managers of the          *)
(* deterministic two-phase-locking scheduler, LockManagerA (exclusive      *)
(* locks only) and LockManagerB (shared and exclusive locks).              *)
(*                                                                         *)
(* One manager instance is modelled.  `policy` says which class it is; the *)
(* caller issues WriteLock / ReadLock / Release / Status calls one at a    *)
(* time (the manager is single threaded), with any transaction and key.    *)
(***************************************************************************)
EXTENDS Integers, Sequences, FiniteSets, TLC

\* Transaction identities (Txn*) and keys the caller uses.
Txns == {"T1", "T2", "T3"}
Keys == {"x", "y"}

\* Length of the call sequences explored (WriteLock/ReadLock/Release calls),
\* for a LockManagerA and for a LockManagerB.
MaxCallsA == 6
MaxCallsB == 5

VARIABLES
    policy,       \* "A" or "B": the class of the manager
    lock_table_,  \* Key -> deque<LockRequest>, entries created on first access
    txn_waits_,   \* Txn -> int, entries created by operator[] and erased at 0
    ready_txns_,  \* the caller's deque<Txn*> the manager appends to
    last,         \* the last WriteLock/ReadLock/Release call and what it did
    calls,        \* number of WriteLock/ReadLock/Release calls so far
    dup,          \* some lock call was made by a txn already queued on the key
    relock,       \* some lock call was made by a txn already in ready_txns_
    twin,         \* a LockManagerB given the same calls as the LockManagerA
    admit,        \* the scheduler: number of (txn, key) lock decisions taken
    blocked       \* the scheduler: transactions with a lock call that returned false

vars == <<policy, lock_table_, txn_waits_, ready_txns_, last, calls, dup, relock,
          twin, admit, blocked>>

UNLOCKED == "UNLOCKED"
SHARED == "SHARED"
EXCLUSIVE == "EXCLUSIVE"

LockRequest(mode, txn) == [mode_ |-> mode, txn_ |-> txn]

----------------------------------------------------------------------------
\* Containers

\* The deque _getLockQueue returns: the key's deque, a new empty one when the
\* key has no entry yet.
GetLockQueue(lt, key) == IF key \in DOMAIN lt THEN lt[key] ELSE << >>

\* The lock table after _getLockQueue(key) and after the deque it returned has
\* become q (the entry exists from then on, also when q is empty).
SetLockQueue(lt, key, q) ==
    [k \in (DOMAIN lt) \cup {key} |-> IF k = key THEN q ELSE lt[k]]

\* Mutant of Erase: the hole is filled with the last request instead of
\* shifting the requests behind it.
Erase_MoveLast(q, i) == [j \in 1..(Len(q) - 1) |-> IF j = i THEN q[Len(q)] ELSE q[j]]

\* deque::erase(it) at position i (1-based).
Erase(q, i) == [j \in 1..(Len(q) - 1) |-> IF j < i THEN q[j] ELSE q[j + 1]]

\* txn_waits_[txn] read through operator[]: 0 for a new entry.
WaitsAt(tw, txn) == IF txn \in DOMAIN tw THEN tw[txn] ELSE 0

\* txn_waits_[txn] = v through operator[] (the entry exists afterwards).
WaitsSet(tw, txn, v) ==
    [t \in (DOMAIN tw) \cup {txn} |-> IF t = txn THEN v ELSE tw[t]]

\* txn_waits_.erase(txn)
WaitsErase(tw, txn) == [t \in (DOMAIN tw) \ {txn} |-> tw[t]]

\* The manager's state as one value.
Mgr(lt, tw, rt) == [lock_table_ |-> lt, txn_waits_ |-> tw, ready_txns_ |-> rt]

----------------------------------------------------------------------------
\* Mutant of ReleaseScan: the flag is not cleared by the requests passed over.
RECURSIVE ReleaseScan_FlagNotCleared(_, _, _, _)
ReleaseScan_FlagNotCleared(queue, txn, i, removedOwner) ==
    IF i > Len(queue)
    THEN [queue |-> queue, removedOwner |-> removedOwner, at |-> 0]
    ELSE IF queue[i].txn_ = txn
         THEN [queue |-> Erase(queue, i), removedOwner |-> removedOwner, at |-> i]
         ELSE ReleaseScan_FlagNotCleared(queue, txn, i + 1, removedOwner)

\* The release loop both managers share: erase the first request of txn.
\* removedOwner is LockManagerA's flag, cleared by every non-matching request
\* passed over; at is the position erased, 0 when there was none.
RECURSIVE ReleaseScan(_, _, _, _)
ReleaseScan(queue, txn, i, removedOwner) ==
    IF i > Len(queue)
    THEN [queue |-> queue, removedOwner |-> removedOwner, at |-> 0]
    ELSE IF queue[i].txn_ = txn
         THEN [queue |-> Erase(queue, i), removedOwner |-> removedOwner, at |-> i]
         ELSE ReleaseScan(queue, txn, i + 1, FALSE)

----------------------------------------------------------------------------
\* LockManagerA

\* Mutant of A_WriteLock: a waiting request sets the counter to 1 instead of
\* adding 1 to it.
A_WriteLock_NotCounting(m, txn, key) ==
    LET dq == GetLockQueue(m.lock_table_, key)
        empty == (Len(dq) = 0)
    IN [lock_table_ |-> SetLockQueue(m.lock_table_, key,
                                     Append(dq, LockRequest(EXCLUSIVE, txn))),
        txn_waits_ |-> IF ~empty
                       THEN WaitsSet(m.txn_waits_, txn, 1)
                       ELSE m.txn_waits_,
        ready_txns_ |-> m.ready_txns_,
        ret |-> empty,
        at |-> 0,
        appended |-> << >>]

A_WriteLock(m, txn, key) ==
    LET dq == GetLockQueue(m.lock_table_, key)
        empty == (Len(dq) = 0)
    IN [lock_table_ |-> SetLockQueue(m.lock_table_, key,
                                     Append(dq, LockRequest(EXCLUSIVE, txn))),
        txn_waits_ |-> IF ~empty
                       THEN WaitsSet(m.txn_waits_, txn, WaitsAt(m.txn_waits_, txn) + 1)
                       ELSE m.txn_waits_,
        ready_txns_ |-> m.ready_txns_,
        ret |-> empty,
        at |-> 0,
        appended |-> << >>]

A_ReadLock(m, txn, key) == A_WriteLock(m, txn, key)

\* Mutant of A_Release: the new owner is appended to ready_txns_ whatever its
\* counter says.
A_Release_AlwaysReady(m, txn, key) ==
    LET scan == ReleaseScan(GetLockQueue(m.lock_table_, key), txn, 1, TRUE)
        queue == scan.queue
        lt == SetLockQueue(m.lock_table_, key, queue)
    IN IF Len(queue) # 0 /\ scan.removedOwner
       THEN LET next == queue[1]
                wait_count == WaitsAt(m.txn_waits_, next.txn_) - 1
            IN [lock_table_ |-> lt,
                txn_waits_ |-> IF wait_count = 0
                               THEN WaitsErase(m.txn_waits_, next.txn_)
                               ELSE WaitsSet(m.txn_waits_, next.txn_, wait_count),
                ready_txns_ |-> Append(m.ready_txns_, next.txn_),
                ret |-> FALSE, at |-> scan.at,
                appended |-> <<next.txn_>>]
       ELSE [lock_table_ |-> lt,
             txn_waits_ |-> m.txn_waits_,
             ready_txns_ |-> m.ready_txns_,
             ret |-> FALSE, at |-> scan.at,
             appended |-> << >>]

\* Mutant of A_Release: the removedOwner flag is ignored, any release hands
\* the lock to the front request.
A_Release_AnyRelease(m, txn, key) ==
    LET scan == ReleaseScan(GetLockQueue(m.lock_table_, key), txn, 1, TRUE)
        queue == scan.queue
        lt == SetLockQueue(m.lock_table_, key, queue)
    IN IF Len(queue) # 0 /\ scan.at # 0
       THEN LET next == queue[1]
                wait_count == WaitsAt(m.txn_waits_, next.txn_) - 1
            IN IF wait_count = 0
               THEN [lock_table_ |-> lt,
                     txn_waits_ |-> WaitsErase(m.txn_waits_, next.txn_),
                     ready_txns_ |-> Append(m.ready_txns_, next.txn_),
                     ret |-> FALSE, at |-> scan.at,
                     appended |-> <<next.txn_>>]
               ELSE [lock_table_ |-> lt,
                     txn_waits_ |-> WaitsSet(m.txn_waits_, next.txn_, wait_count),
                     ready_txns_ |-> m.ready_txns_,
                     ret |-> FALSE, at |-> scan.at,
                     appended |-> << >>]
       ELSE [lock_table_ |-> lt,
             txn_waits_ |-> m.txn_waits_,
             ready_txns_ |-> m.ready_txns_,
             ret |-> FALSE, at |-> scan.at,
             appended |-> << >>]

\* Mutant of A_Release: the lock goes to the request at the back of the queue.
A_Release_PromoteBack(m, txn, key) ==
    LET scan == ReleaseScan(GetLockQueue(m.lock_table_, key), txn, 1, TRUE)
        queue == scan.queue
        lt == SetLockQueue(m.lock_table_, key, queue)
    IN IF Len(queue) # 0 /\ scan.removedOwner
       THEN LET next == queue[Len(queue)]
                wait_count == WaitsAt(m.txn_waits_, next.txn_) - 1
            IN IF wait_count = 0
               THEN [lock_table_ |-> lt,
                     txn_waits_ |-> WaitsErase(m.txn_waits_, next.txn_),
                     ready_txns_ |-> Append(m.ready_txns_, next.txn_),
                     ret |-> FALSE, at |-> scan.at,
                     appended |-> <<next.txn_>>]
               ELSE [lock_table_ |-> lt,
                     txn_waits_ |-> WaitsSet(m.txn_waits_, next.txn_, wait_count),
                     ready_txns_ |-> m.ready_txns_,
                     ret |-> FALSE, at |-> scan.at,
                     appended |-> << >>]
       ELSE [lock_table_ |-> lt,
             txn_waits_ |-> m.txn_waits_,
             ready_txns_ |-> m.ready_txns_,
             ret |-> FALSE, at |-> scan.at,
             appended |-> << >>]

A_Release(m, txn, key) ==
    LET scan == ReleaseScan(GetLockQueue(m.lock_table_, key), txn, 1, TRUE)
        queue == scan.queue
        lt == SetLockQueue(m.lock_table_, key, queue)
    IN IF Len(queue) # 0 /\ scan.removedOwner
       THEN LET next == queue[1]
                wait_count == WaitsAt(m.txn_waits_, next.txn_) - 1
            IN IF wait_count = 0
               THEN [lock_table_ |-> lt,
                     txn_waits_ |-> WaitsErase(m.txn_waits_, next.txn_),
                     ready_txns_ |-> Append(m.ready_txns_, next.txn_),
                     ret |-> FALSE, at |-> scan.at,
                     appended |-> <<next.txn_>>]
               ELSE [lock_table_ |-> lt,
                     txn_waits_ |-> WaitsSet(m.txn_waits_, next.txn_, wait_count),
                     ready_txns_ |-> m.ready_txns_,
                     ret |-> FALSE, at |-> scan.at,
                     appended |-> << >>]
       ELSE [lock_table_ |-> lt,
             txn_waits_ |-> m.txn_waits_,
             ready_txns_ |-> m.ready_txns_,
             ret |-> FALSE, at |-> scan.at,
             appended |-> << >>]

A_Status(lt, key) ==
    LET dq == GetLockQueue(lt, key)
    IN IF Len(dq) = 0
       THEN [mode |-> UNLOCKED, owners |-> << >>]
       ELSE [mode |-> EXCLUSIVE, owners |-> <<dq[1].txn_>>]

----------------------------------------------------------------------------
\* LockManagerB

\* Mutant of B_StatusLoop: an EXCLUSIVE request behind SHARED owners is taken
\* for an owner too.
RECURSIVE B_StatusLoop_NoSharedBlock(_, _, _, _)
B_StatusLoop_NoSharedBlock(dq, i, mode, txn_owners) ==
    IF i > Len(dq)
    THEN [mode |-> mode, owners |-> txn_owners]
    ELSE IF dq[i].mode_ = EXCLUSIVE
         THEN [mode |-> EXCLUSIVE, owners |-> Append(txn_owners, dq[i].txn_)]
         ELSE B_StatusLoop_NoSharedBlock(dq, i + 1, dq[i].mode_,
                                         Append(txn_owners, dq[i].txn_))

\* Mutant of B_StatusLoop: SHARED requests behind a waiting EXCLUSIVE request
\* are taken for owners (the loop passes over the EXCLUSIVE request).
RECURSIVE B_StatusLoop_ReadersPass(_, _, _, _)
B_StatusLoop_ReadersPass(dq, i, mode, txn_owners) ==
    IF i > Len(dq)
    THEN [mode |-> mode, owners |-> txn_owners]
    ELSE IF dq[i].mode_ = EXCLUSIVE /\ mode = SHARED
         THEN B_StatusLoop_ReadersPass(dq, i + 1, mode, txn_owners)
         ELSE IF dq[i].mode_ = EXCLUSIVE
              THEN [mode |-> EXCLUSIVE, owners |-> Append(txn_owners, dq[i].txn_)]
              ELSE B_StatusLoop_ReadersPass(dq, i + 1, dq[i].mode_,
                                            Append(txn_owners, dq[i].txn_))

\* The loop of Status over the deque from position i, with the running mode
\* and the owners collected so far.
RECURSIVE B_StatusLoop(_, _, _, _)
B_StatusLoop(dq, i, mode, txn_owners) ==
    IF i > Len(dq)
    THEN [mode |-> mode, owners |-> txn_owners]
    ELSE IF dq[i].mode_ = EXCLUSIVE /\ mode = SHARED
         THEN [mode |-> mode, owners |-> txn_owners]
         ELSE IF dq[i].mode_ = EXCLUSIVE
              THEN [mode |-> EXCLUSIVE, owners |-> Append(txn_owners, dq[i].txn_)]
              ELSE B_StatusLoop(dq, i + 1, dq[i].mode_, Append(txn_owners, dq[i].txn_))

\* Mutant of B_Status: only the front request is an owner.
B_Status_FrontOnly(lt, key) ==
    LET dq == GetLockQueue(lt, key)
    IN IF Len(dq) = 0
       THEN [mode |-> UNLOCKED, owners |-> << >>]
       ELSE [mode |-> dq[1].mode_, owners |-> <<dq[1].txn_>>]

B_Status(lt, key) ==
    LET dq == GetLockQueue(lt, key)
    IN IF Len(dq) = 0
       THEN [mode |-> UNLOCKED, owners |-> << >>]
       ELSE B_StatusLoop(dq, 1, EXCLUSIVE, << >>)

\* Mutant of _noExclusiveWaiting: only the owners are looked at.
B_noExclusiveWaiting_OwnersOnly(lt, key) == B_Status(lt, key).mode # EXCLUSIVE

B_noExclusiveWaiting(lt, key) ==
    LET dq == GetLockQueue(lt, key)
    IN \A i \in 1..Len(dq) : dq[i].mode_ # EXCLUSIVE

\* Mutant of B_WriteLock: the counter is raised also when the lock is granted.
B_WriteLock_AlwaysCounts(m, txn, key) ==
    LET status == B_Status(m.lock_table_, key).mode
        dq == GetLockQueue(m.lock_table_, key)
        granted == (status = UNLOCKED)
    IN [lock_table_ |-> SetLockQueue(m.lock_table_, key,
                                     Append(dq, LockRequest(EXCLUSIVE, txn))),
        txn_waits_ |-> WaitsSet(m.txn_waits_, txn, WaitsAt(m.txn_waits_, txn) + 1),
        ready_txns_ |-> m.ready_txns_,
        ret |-> granted,
        at |-> 0,
        appended |-> << >>]

B_WriteLock(m, txn, key) ==
    LET status == B_Status(m.lock_table_, key).mode
        dq == GetLockQueue(m.lock_table_, key)
        granted == (status = UNLOCKED)
    IN [lock_table_ |-> SetLockQueue(m.lock_table_, key,
                                     Append(dq, LockRequest(EXCLUSIVE, txn))),
        txn_waits_ |-> IF ~granted
                       THEN WaitsSet(m.txn_waits_, txn, WaitsAt(m.txn_waits_, txn) + 1)
                       ELSE m.txn_waits_,
        ready_txns_ |-> m.ready_txns_,
        ret |-> granted,
        at |-> 0,
        appended |-> << >>]

\* Mutant of B_ReadLock: a reader is granted on an unlocked key only.
B_ReadLock_OnlyUnlocked(m, txn, key) ==
    LET status == B_Status(m.lock_table_, key).mode
        dq == GetLockQueue(m.lock_table_, key)
        lt == SetLockQueue(m.lock_table_, key, Append(dq, LockRequest(SHARED, txn)))
        granted == (status = UNLOCKED)
    IN [lock_table_ |-> lt,
        txn_waits_ |-> IF ~granted
                       THEN WaitsSet(m.txn_waits_, txn, WaitsAt(m.txn_waits_, txn) + 1)
                       ELSE m.txn_waits_,
        ready_txns_ |-> m.ready_txns_,
        ret |-> granted,
        at |-> 0,
        appended |-> << >>]

\* _noExclusiveWaiting runs after the push_back, on the deque that already
\* holds the new SHARED request.
B_ReadLock(m, txn, key) ==
    LET status == B_Status(m.lock_table_, key).mode
        dq == GetLockQueue(m.lock_table_, key)
        lt == SetLockQueue(m.lock_table_, key, Append(dq, LockRequest(SHARED, txn)))
        granted == (status = UNLOCKED) \/ B_noExclusiveWaiting(lt, key)
    IN [lock_table_ |-> lt,
        txn_waits_ |-> IF ~granted
                       THEN WaitsSet(m.txn_waits_, txn, WaitsAt(m.txn_waits_, txn) + 1)
                       ELSE m.txn_waits_,
        ready_txns_ |-> m.ready_txns_,
        ret |-> granted,
        at |-> 0,
        appended |-> << >>]

\* Mutant of B_Advance: a counter that reaches zero is not erased.
RECURSIVE B_Advance_NoErase(_, _, _)
B_Advance_NoErase(newOwners, i, acc) ==
    IF i > Len(newOwners)
    THEN acc
    ELSE LET owner == newOwners[i]
         IN IF owner \in DOMAIN acc.txn_waits_
            THEN IF acc.txn_waits_[owner] - 1 = 0
                 THEN B_Advance_NoErase(newOwners, i + 1,
                        [txn_waits_ |-> WaitsSet(acc.txn_waits_, owner, 0),
                         ready_txns_ |-> Append(acc.ready_txns_, owner),
                         appended |-> Append(acc.appended, owner)])
                 ELSE B_Advance_NoErase(newOwners, i + 1,
                        [acc EXCEPT !.txn_waits_ =
                            WaitsSet(acc.txn_waits_, owner, acc.txn_waits_[owner] - 1)])
            ELSE B_Advance_NoErase(newOwners, i + 1, acc)

\* The loop of Release over newOwners from position i: acc carries txn_waits_,
\* ready_txns_ and the transactions appended by this call.
RECURSIVE B_Advance(_, _, _)
B_Advance(newOwners, i, acc) ==
    IF i > Len(newOwners)
    THEN acc
    ELSE LET owner == newOwners[i]
         IN IF owner \in DOMAIN acc.txn_waits_
            THEN IF acc.txn_waits_[owner] - 1 = 0
                 THEN B_Advance(newOwners, i + 1,
                        [txn_waits_ |-> WaitsErase(acc.txn_waits_, owner),
                         ready_txns_ |-> Append(acc.ready_txns_, owner),
                         appended |-> Append(acc.appended, owner)])
                 ELSE B_Advance(newOwners, i + 1,
                        [acc EXCEPT !.txn_waits_ =
                            WaitsSet(acc.txn_waits_, owner, acc.txn_waits_[owner] - 1)])
            ELSE B_Advance(newOwners, i + 1, acc)

B_Release(m, txn, key) ==
    LET scan == ReleaseScan(GetLockQueue(m.lock_table_, key), txn, 1, TRUE)
        lt == SetLockQueue(m.lock_table_, key, scan.queue)
        newOwners == B_Status(lt, key).owners
        adv == B_Advance(newOwners, 1,
                         [txn_waits_ |-> m.txn_waits_,
                          ready_txns_ |-> m.ready_txns_,
                          appended |-> << >>])
    IN [lock_table_ |-> lt,
        txn_waits_ |-> adv.txn_waits_,
        ready_txns_ |-> adv.ready_txns_,
        ret |-> FALSE, at |-> scan.at,
        appended |-> adv.appended]

----------------------------------------------------------------------------
\* The calls

\* What the queues say: txn has a request in key's deque.
HasRequest(lt, txn, key) ==
    \E i \in 1..Len(GetLockQueue(lt, key)) : GetLockQueue(lt, key)[i].txn_ = txn

InReady(rt, txn) == \E i \in 1..Len(rt) : rt[i] = txn

Cur == Mgr(lock_table_, txn_waits_, ready_txns_)

\* One call with result r: the manager's new state and the record of the call.
Step(op, txn, key, res) ==
    /\ \E r \in {res} :
          /\ lock_table_' = r.lock_table_
          /\ txn_waits_' = r.txn_waits_
          /\ ready_txns_' = r.ready_txns_
          /\ last' = [op |-> op, txn |-> txn, key |-> key, ret |-> r.ret,
                      at |-> r.at, appended |-> r.appended]
    /\ calls' = calls + 1
    /\ dup' = (dup \/ (op # "Release" /\ HasRequest(lock_table_, txn, key)))
    /\ relock' = (relock \/ (op # "Release" /\ InReady(ready_txns_, txn)))
    /\ UNCHANGED policy

\* A call of a caller that issues any call sequence up to the length explored.
Call(op, txn, key, res) ==
    /\ calls < (IF policy = "A" THEN MaxCallsA ELSE MaxCallsB)
    /\ Step(op, txn, key, res)
    /\ UNCHANGED <<twin, admit, blocked>>

CallA_WriteLock(txn, key) ==
    policy = "A" /\ Call("WriteLock", txn, key, A_WriteLock(Cur, txn, key))

CallA_ReadLock(txn, key) ==
    policy = "A" /\ Call("ReadLock", txn, key, A_ReadLock(Cur, txn, key))

CallA_Release(txn, key) ==
    policy = "A" /\ Call("Release", txn, key, A_Release(Cur, txn, key))

CallB_WriteLock(txn, key) ==
    policy = "B" /\ Call("WriteLock", txn, key, B_WriteLock(Cur, txn, key))

CallB_ReadLock(txn, key) ==
    policy = "B" /\ Call("ReadLock", txn, key, B_ReadLock(Cur, txn, key))

CallB_Release(txn, key) ==
    policy = "B" /\ Call("Release", txn, key, B_Release(Cur, txn, key))

\* Status (either class) changes nothing but the lock table entry that
\* _getLockQueue creates for a key seen for the first time.
Call_Status(key) ==
    /\ key \notin DOMAIN lock_table_
    /\ lock_table_' = SetLockQueue(lock_table_, key, << >>)
    /\ UNCHANGED <<policy, txn_waits_, ready_txns_, last, calls, dup, relock,
                   twin, admit, blocked>>

NoCall == [op |-> "none", txn |-> "none", key |-> "none", ret |-> FALSE, at |-> 0,
           appended |-> << >>]

Init ==
    /\ policy \in {"A", "B"}
    /\ lock_table_ = << >>
    /\ txn_waits_ = << >>
    /\ ready_txns_ = << >>
    /\ last = NoCall
    /\ calls = 0
    /\ dup = FALSE
    /\ relock = FALSE
    /\ twin = [lock_table_ |-> << >>, txn_waits_ |-> << >>, ready_txns_ |-> << >>,
               ret |-> FALSE]
    /\ admit = 0
    /\ blocked = {}

InitA == Init /\ policy = "A"

InitB == Init /\ policy = "B"

NextA ==
    \/ \E txn \in Txns, key \in Keys : CallA_WriteLock(txn, key)
    \/ \E txn \in Txns, key \in Keys : CallA_ReadLock(txn, key)
    \/ \E txn \in Txns, key \in Keys : CallA_Release(txn, key)
    \/ \E key \in Keys : Call_Status(key)

NextB ==
    \/ \E txn \in Txns, key \in Keys : CallB_WriteLock(txn, key)
    \/ \E txn \in Txns, key \in Keys : CallB_ReadLock(txn, key)
    \/ \E txn \in Txns, key \in Keys : CallB_Release(txn, key)
    \/ \E key \in Keys : Call_Status(key)

Next == NextA \/ NextB

\* A manager of either class, a LockManagerA, a LockManagerB.
Spec == Init /\ [][Next]_vars

SpecA == InitA /\ [][NextA]_vars

SpecB == InitB /\ [][NextB]_vars

----------------------------------------------------------------------------
\* A LockManagerA and a LockManagerB side by side: the caller gives both the
\* same WriteLock and Release calls.  The LockManagerA is the manager of the
\* variables above, the LockManagerB is `twin`.

TwinAfter(r) == [lock_table_ |-> r.lock_table_, txn_waits_ |-> r.txn_waits_,
                 ready_txns_ |-> r.ready_txns_, ret |-> r.ret]

CallAB_WriteLock(txn, key) ==
    /\ policy = "A"
    /\ calls < MaxCallsA
    /\ Step("WriteLock", txn, key, A_WriteLock(Cur, txn, key))
    /\ twin' = TwinAfter(B_WriteLock(twin, txn, key))
    /\ UNCHANGED <<admit, blocked>>

CallAB_Release(txn, key) ==
    /\ policy = "A"
    /\ calls < MaxCallsA
    /\ Step("Release", txn, key, A_Release(Cur, txn, key))
    /\ twin' = TwinAfter(B_Release(twin, txn, key))
    /\ UNCHANGED <<admit, blocked>>

NextAB ==
    \/ \E txn \in Txns, key \in Keys : CallAB_WriteLock(txn, key)
    \/ \E txn \in Txns, key \in Keys : CallAB_Release(txn, key)

SpecAB == InitA /\ [][NextAB]_vars

----------------------------------------------------------------------------
\* The caller's discipline (the deterministic scheduler): transactions are
\* admitted in the order TxnOrder; for each, the scheduler goes through the
\* keys in the order KeyOrder and requests a write lock, a read lock, or
\* nothing; a runnable transaction releases the keys it requested, one
\* Release call at a time.  Releases of runnable transactions may come
\* between the lock calls.

TxnOrder == <<"T1", "T2", "T3">>
KeyOrder == <<"x", "y">>

NumDecisions == Len(TxnOrder) * Len(KeyOrder)

\* The transaction and the key of the next lock decision.
AdmitTxn == TxnOrder[(admit \div Len(KeyOrder)) + 1]
AdmitKey == KeyOrder[(admit % Len(KeyOrder)) + 1]

\* txn has issued all its lock calls.
Admitted(txn) ==
    \E i \in 1..Len(TxnOrder) : TxnOrder[i] = txn /\ admit >= i * Len(KeyOrder)

\* txn may run: every lock was granted on arrival, or the manager has put it
\* in ready_txns_.
Runnable(txn) ==
    /\ Admitted(txn)
    /\ txn \notin blocked \/ InReady(ready_txns_, txn)

WriteLockOf(m, txn, key) ==
    IF policy = "A" THEN A_WriteLock(m, txn, key) ELSE B_WriteLock(m, txn, key)

ReadLockOf(m, txn, key) ==
    IF policy = "A" THEN A_ReadLock(m, txn, key) ELSE B_ReadLock(m, txn, key)

ReleaseOf(m, txn, key) ==
    IF policy = "A" THEN A_Release(m, txn, key) ELSE B_Release(m, txn, key)

Sched_NoLock ==
    /\ admit < NumDecisions
    /\ admit' = admit + 1
    /\ UNCHANGED <<policy, lock_table_, txn_waits_, ready_txns_, last, calls, dup,
                   relock, twin, blocked>>

Sched_WriteLock ==
    /\ admit < NumDecisions
    /\ Step("WriteLock", AdmitTxn, AdmitKey, WriteLockOf(Cur, AdmitTxn, AdmitKey))
    /\ admit' = admit + 1
    /\ blocked' = IF WriteLockOf(Cur, AdmitTxn, AdmitKey).ret
                  THEN blocked ELSE blocked \cup {AdmitTxn}
    /\ UNCHANGED twin

Sched_ReadLock ==
    /\ admit < NumDecisions
    /\ Step("ReadLock", AdmitTxn, AdmitKey, ReadLockOf(Cur, AdmitTxn, AdmitKey))
    /\ admit' = admit + 1
    /\ blocked' = IF ReadLockOf(Cur, AdmitTxn, AdmitKey).ret
                  THEN blocked ELSE blocked \cup {AdmitTxn}
    /\ UNCHANGED twin

Sched_Release(txn, key) ==
    /\ Runnable(txn)
    /\ HasRequest(lock_table_, txn, key)
    /\ Step("Release", txn, key, ReleaseOf(Cur, txn, key))
    /\ UNCHANGED <<twin, admit, blocked>>

NextSched ==
    \/ Sched_NoLock
    \/ Sched_WriteLock
    \/ Sched_ReadLock
    \/ \E txn \in Txns, key \in Keys : Sched_Release(txn, key)

\* The scheduler keeps going: it admits the next transaction and runs and
\* releases the runnable ones as long as there is one.
SpecSched == Init /\ [][NextSched]_vars /\ WF_vars(NextSched)

----------------------------------------------------------------------------
\* What a caller observes between calls

\* Status(key, &owners) of the manager's class.
Status(lt, key) == IF policy = "A" THEN A_Status(lt, key) ELSE B_Status(lt, key)

InSeq(s, x) == \E i \in 1..Len(s) : s[i] = x

\* txn is among the owners Status reports for key.
IsOwner(lt, txn, key) == InSeq(Status(lt, key).owners, txn)

\* The wait counters as total functions (0 for a transaction with no entry).
WaitCount(tw) == [t \in Txns |-> WaitsAt(tw, t)]

\* The step just taken was a call of op (a Status call leaves `last` as it is).
Called(op) == calls' = calls + 1 /\ last'.op = op

----------------------------------------------------------------------------
\* C1: LockManagerB, one live request per transaction and key: a transaction
\* that Release has just appended to ready_txns_ is among the owners of every
\* key whose queue holds a request of it.
C1_NeverBeforeB ==
    (policy = "B" /\ ~dup /\ last.op = "Release") =>
        \A i \in 1..Len(last.appended) : \A k \in Keys :
            HasRequest(lock_table_, last.appended[i], k)
                => IsOwner(lock_table_, last.appended[i], k)

\* C2: LockManagerA, any call sequence: a transaction that Release has just
\* appended to ready_txns_ has every request it has in any queue at the front
\* of that queue.
C2_NeverBeforeA ==
    (policy = "A" /\ last.op = "Release") =>
        \A i \in 1..Len(last.appended) : \A k \in Keys :
            \A j \in 1..Len(GetLockQueue(lock_table_, k)) :
                GetLockQueue(lock_table_, k)[j].txn_ = last.appended[i] => j = 1

\* C2 witness: a LockManagerA Release (one live request per transaction and
\* key) appended a transaction that has requests on both keys, so that it
\* owns both now.
C2_Witness ==
    /\ policy = "A"
    /\ ~dup
    /\ last.op = "Release"
    /\ last.at = 1
    /\ Len(last.appended) = 1
    /\ \A k \in Keys : HasRequest(lock_table_, last.appended[1], k)

\* C3: LockManagerB: Release(txn, key) with no request of txn in key's queue
\* leaves the queue, the owners, every wait counter and ready_txns_ unchanged
\* (stated for the call sequences with one live request per transaction and
\* key, the lifecycle the lock table assumes).
C3_ReleaseAbsentNoOpB ==
    [][(policy = "B" /\ Called("Release") /\ ~dup
          /\ ~HasRequest(lock_table_, last'.txn, last'.key))
        => /\ GetLockQueue(lock_table_', last'.key) = GetLockQueue(lock_table_, last'.key)
           /\ Status(lock_table_', last'.key) = Status(lock_table_, last'.key)
           /\ WaitCount(txn_waits_') = WaitCount(txn_waits_)
           /\ ready_txns_' = ready_txns_]_vars

\* C4: LockManagerA: Release(txn, key) with no request of txn in key's queue
\* (an empty or never used key included) leaves the queue, Status(key), the
\* wait counters and ready_txns_ unchanged.
C4_ReleaseAbsentNoOpA ==
    [][(policy = "A" /\ Called("Release")
          /\ ~HasRequest(lock_table_, last'.txn, last'.key))
        => /\ GetLockQueue(lock_table_', last'.key) = GetLockQueue(lock_table_, last'.key)
           /\ Status(lock_table_', last'.key) = Status(lock_table_, last'.key)
           /\ txn_waits_' = txn_waits_
           /\ ready_txns_' = ready_txns_]_vars

\* C4 witness: a LockManagerA Release that found no request of its transaction
\* in a queue that has an owner and a waiter.
C4_Witness ==
    /\ policy = "A"
    /\ last.op = "Release"
    /\ last.at = 0
    /\ ~HasRequest(lock_table_, last.txn, last.key)
    /\ Len(GetLockQueue(lock_table_, last.key)) >= 2
    /\ WaitsAt(txn_waits_, GetLockQueue(lock_table_, last.key)[2].txn_) >= 1

\* C5: either class, no lock call by a transaction already in ready_txns_:
\* ready_txns_ holds no transaction twice.
C5_NeverTwice ==
    ~relock =>
        \A i, j \in 1..Len(ready_txns_) : ready_txns_[i] = ready_txns_[j] => i = j

\* C5 witness: a Release has just made a transaction that is already in
\* ready_txns_ the owner of another key, without appending it again.
C5_Witness ==
    /\ ~relock
    /\ last.op = "Release"
    /\ \E t \in Txns :
          /\ InReady(ready_txns_, t)
          /\ ~InSeq(last.appended, t)
          /\ last.at # 0
          /\ last.txn # t
          /\ IsOwner(lock_table_, t, last.key)

\* C6: either class, one live request per transaction and key: the wait
\* counter of a transaction (0 without an entry) is the number of keys whose
\* queue holds a request of it that is not among the key's owners.
C6_WaitCounterMeaning ==
    ~dup =>
        \A t \in Txns :
            WaitsAt(txn_waits_, t) =
                Cardinality({k \in Keys : /\ HasRequest(lock_table_, t, k)
                                          /\ ~IsOwner(lock_table_, t, k)})

\* An EXCLUSIVE request is somewhere in key's queue.
HasExclusive(lt, key) ==
    \E i \in 1..Len(GetLockQueue(lt, key)) : GetLockQueue(lt, key)[i].mode_ = EXCLUSIVE

\* C7: LockManagerB: ReadLock(Tr, K) on a key whose queue holds an EXCLUSIVE
\* request returns false, appends a SHARED request of Tr at the tail and
\* raises Tr's wait counter by 1.
C7_ReaderGatedB ==
    [][(policy = "B" /\ Called("ReadLock") /\ HasExclusive(lock_table_, last'.key))
        => /\ last'.ret = FALSE
           /\ GetLockQueue(lock_table_', last'.key) =
                Append(GetLockQueue(lock_table_, last'.key),
                       LockRequest(SHARED, last'.txn))
           /\ WaitCount(txn_waits_') =
                [WaitCount(txn_waits_) EXCEPT ![last'.txn] = @ + 1]]_vars

\* C7 witness: a ReadLock was refused on a key all of whose owners are SHARED
\* (the EXCLUSIVE request is still waiting behind them).
C7_Witness ==
    /\ policy = "B"
    /\ last.op = "ReadLock"
    /\ last.ret = FALSE
    /\ B_Status(lock_table_, last.key).mode = SHARED
    /\ WaitsAt(txn_waits_, last.txn) >= 1

\* C8: either class: when Status(key) returns EXCLUSIVE the owners are exactly
\* the transaction of the request at the front of the key's queue.
C8_Exclusivity ==
    \A k \in Keys :
        Status(lock_table_, k).mode = EXCLUSIVE =>
            /\ Len(GetLockQueue(lock_table_, k)) >= 1
            /\ Status(lock_table_, k).owners = <<GetLockQueue(lock_table_, k)[1].txn_>>

\* C8 witness: a LockManagerB key held EXCLUSIVE with SHARED and EXCLUSIVE
\* requests queued behind the owner.
C8_Witness ==
    /\ policy = "B"
    /\ \E k \in Keys :
          /\ Status(lock_table_, k).mode = EXCLUSIVE
          /\ Len(GetLockQueue(lock_table_, k)) >= 3
          /\ GetLockQueue(lock_table_, k)[2].mode_ = SHARED
          /\ GetLockQueue(lock_table_, k)[3].mode_ = EXCLUSIVE

\* C9: LockManagerB: when Status(key) returns SHARED its owners are exactly
\* the transactions of the maximal run of SHARED requests at the front of the
\* key's queue.
C9_SharedPrefixB ==
    policy = "B" =>
        \A k \in Keys :
            LET st == B_Status(lock_table_, k)
                dq == GetLockQueue(lock_table_, k)
                n == Len(st.owners)
            IN st.mode = SHARED =>
                /\ n >= 1
                /\ n <= Len(dq)
                /\ \A i \in 1..n : dq[i].mode_ = SHARED /\ dq[i].txn_ = st.owners[i]
                /\ n < Len(dq) => dq[n + 1].mode_ = EXCLUSIVE

\* C9 witness: two SHARED owners with an EXCLUSIVE request and a later SHARED
\* request waiting behind them.
C9_Witness ==
    /\ policy = "B"
    /\ \E k \in Keys :
          /\ B_Status(lock_table_, k).mode = SHARED
          /\ Len(B_Status(lock_table_, k).owners) = 2
          /\ Len(GetLockQueue(lock_table_, k)) = 4
          /\ GetLockQueue(lock_table_, k)[4].mode_ = SHARED

\* C10: LockManagerA: a Release that removes the front request of a queue and
\* leaves it non-empty lowers the wait counter of the transaction that was
\* second in the queue by 1, changes no other counter, and appends to
\* ready_txns_ nothing or that transaction alone.
C10_FifoPromotionA ==
    [][(policy = "A" /\ Called("Release")
          /\ Len(GetLockQueue(lock_table_, last'.key)) >= 2
          /\ GetLockQueue(lock_table_, last'.key)[1].txn_ = last'.txn)
        => LET second == GetLockQueue(lock_table_, last'.key)[2].txn_
           IN /\ WaitCount(txn_waits_') =
                    [WaitCount(txn_waits_) EXCEPT ![second] = @ - 1]
              /\ \/ ready_txns_' = ready_txns_
                 \/ ready_txns_' = Append(ready_txns_, second)]_vars

\* C10 witness: T1, T2, T3 queued in that order; the release of the owner
\* appended the second and left the third waiting.
C10_Witness ==
    /\ policy = "A"
    /\ last.op = "Release"
    /\ last.at = 1
    /\ Len(GetLockQueue(lock_table_, last.key)) >= 2
    /\ last.appended = <<GetLockQueue(lock_table_, last.key)[1].txn_>>
    /\ GetLockQueue(lock_table_, last.key)[2].txn_ # last.appended[1]
    /\ WaitsAt(txn_waits_, GetLockQueue(lock_table_, last.key)[2].txn_) >= 1


\* The mode of the request a lock call of the manager's class queues.
RequestMode(op) == IF policy = "B" /\ op = "ReadLock" THEN SHARED ELSE EXCLUSIVE

\* q without its first request of txn (q itself when it has none).
WithoutFirst(q, txn) ==
    IF \E i \in 1..Len(q) : q[i].txn_ = txn
    THEN LET i == CHOOSE i \in 1..Len(q) :
                    /\ q[i].txn_ = txn
                    /\ \A j \in 1..(i - 1) : q[j].txn_ # txn
         IN SubSeq(q, 1, i - 1) \o SubSeq(q, i + 1, Len(q))
    ELSE q

\* C11: either class: a lock call appends its request at the tail of the
\* key's queue, Release(txn, key) removes the first request of txn from the
\* key's queue and nothing else, and no call changes the queue of another key;
\* so every queue keeps its requests in arrival order.
C11_FifoQueues ==
    [][(calls' = calls + 1) =>
        /\ \A k \in Keys \ {last'.key} :
              GetLockQueue(lock_table_', k) = GetLockQueue(lock_table_, k)
        /\ last'.op \in {"WriteLock", "ReadLock"} =>
              GetLockQueue(lock_table_', last'.key) =
                 Append(GetLockQueue(lock_table_, last'.key),
                        LockRequest(RequestMode(last'.op), last'.txn))
        /\ last'.op = "Release" =>
              GetLockQueue(lock_table_', last'.key) =
                 WithoutFirst(GetLockQueue(lock_table_, last'.key), last'.txn)]_vars

\* C11 witness: a Release took a request out of the middle of a queue, with
\* requests of other transactions before and behind it.
C11_Witness ==
    /\ last.op = "Release"
    /\ last.at = 2
    /\ Len(GetLockQueue(lock_table_, last.key)) >= 2
    /\ \A i \in 1..Len(GetLockQueue(lock_table_, last.key)) :
          GetLockQueue(lock_table_, last.key)[i].txn_ # last.txn


\* C12: LockManagerB (one live request per transaction and key): a
\* Release(T, K) leaves alone every other transaction U that was among K's
\* owners before the call: U's wait counter is unchanged and U is not
\* appended to ready_txns_.
C12_OwnersSkippedB ==
    [][(policy = "B" /\ Called("Release") /\ ~dup)
        => \A u \in Txns \ {last'.txn} :
              IsOwner(lock_table_, u, last'.key)
                 => /\ WaitsAt(txn_waits_', u) = WaitsAt(txn_waits_, u)
                    /\ ~InSeq(last'.appended, u)]_vars

\* C13: either class: a lock call for a transaction with no request in the
\* key's queue returns true exactly when the transaction is among the key's
\* owners right after the call; for WriteLock (and LockManagerA's ReadLock)
\* that is when the queue was empty, for LockManagerB's ReadLock when the
\* queue held no EXCLUSIVE request.
C13_GrantIsOwnership ==
    [][(calls' = calls + 1 /\ last'.op \in {"WriteLock", "ReadLock"}
          /\ ~HasRequest(lock_table_, last'.txn, last'.key))
        => /\ last'.ret = IsOwner(lock_table_', last'.txn, last'.key)
           /\ last'.ret =
                IF policy = "B" /\ last'.op = "ReadLock"
                THEN ~HasExclusive(lock_table_, last'.key)
                ELSE GetLockQueue(lock_table_, last'.key) = << >>]_vars

\* C13 witness: a LockManagerB ReadLock was granted on a key that already had
\* a SHARED owner, and the reader is an owner now.
C13_Witness ==
    /\ policy = "B"
    /\ ~dup
    /\ last.op = "ReadLock"
    /\ last.ret = TRUE
    /\ Len(GetLockQueue(lock_table_, last.key)) >= 2
    /\ IsOwner(lock_table_, last.txn, last.key)


\* C14: LockManagerB (one live request per transaction and key): while an
\* EXCLUSIVE request of Tw is in K's queue, a transaction Tr whose SHARED
\* request stands behind it (it was queued later, by C11) is not among K's
\* owners, and a Release on K does not append Tr to ready_txns_.
C14_WriterNotOvertakenB ==
    (policy = "B" /\ ~dup) =>
        \A k \in Keys :
            LET dq == GetLockQueue(lock_table_, k)
            IN \A i, j \in 1..Len(dq) :
                  (i < j /\ dq[i].mode_ = EXCLUSIVE /\ dq[j].mode_ = SHARED)
                     => /\ ~IsOwner(lock_table_, dq[j].txn_, k)
                        /\ ~(last.op = "Release" /\ last.key = k
                               /\ InSeq(last.appended, dq[j].txn_))

\* C14 witness: the owner of K was released, the writer behind it was
\* promoted and appended, and the reader behind the writer stays waiting.
C14_Witness ==
    /\ policy = "B"
    /\ ~dup
    /\ last.op = "Release"
    /\ last.at = 1
    /\ LET dq == GetLockQueue(lock_table_, last.key)
       IN /\ Len(dq) >= 2
          /\ dq[1].mode_ = EXCLUSIVE
          /\ dq[2].mode_ = SHARED
          /\ last.appended = <<dq[1].txn_>>
          /\ WaitsAt(txn_waits_, dq[2].txn_) >= 1


\* C15: the same sequence of WriteLock and Release calls (one live request
\* per transaction and key) given to a LockManagerA and to a LockManagerB
\* leaves both, after every call, with the same return value, the same queues
\* and Status results, the same wait counters and the same ready_txns_.
C15_PoliciesAgree ==
    ~dup =>
        /\ twin.ret = last.ret
        /\ \A k \in Keys :
              /\ GetLockQueue(twin.lock_table_, k) = GetLockQueue(lock_table_, k)
              /\ B_Status(twin.lock_table_, k) = A_Status(lock_table_, k)
        /\ twin.txn_waits_ = txn_waits_
        /\ twin.ready_txns_ = ready_txns_


\* Every transaction is runnable and every queue is empty.
AllDone ==
    /\ \A t \in Txns : Runnable(t)
    /\ \A k \in Keys : GetLockQueue(lock_table_, k) = << >>

\* C16: either class, under the scheduler's discipline and weak fairness:
\* eventually every transaction is runnable and every queue is empty.
C16_EventuallyAllRun == <>AllDone

\* C16 witness: all done after two transactions had to wait and were made
\* ready by releases.
C16_Witness ==
    /\ AllDone
    /\ Cardinality(blocked) >= 2
    /\ \A t \in blocked : InReady(ready_txns_, t)


\* The transactions of owners whose wait counter is 1, in the order of owners.
RECURSIVE ReachingZero(_, _)
ReachingZero(owners, tw) ==
    IF owners = << >>
    THEN << >>
    ELSE IF WaitsAt(tw, Head(owners)) = 1
         THEN <<Head(owners)>> \o ReachingZero(Tail(owners), tw)
         ELSE ReachingZero(Tail(owners), tw)

\* C17: LockManagerB (one live request per transaction and key): when Release
\* removes the EXCLUSIVE owner at the front of K's queue and the new owners
\* are several SHARED requests (all of which were waiting behind it), the call
\* lowers the wait counter of each new owner by exactly 1, changes no other
\* counter, and appends to ready_txns_ those whose counter reaches zero, in
\* the order of their requests in the queue.
C17_ReaderRunPromotedB ==
    [][(policy = "B" /\ Called("Release") /\ ~dup
          /\ Len(GetLockQueue(lock_table_, last'.key)) >= 1
          /\ GetLockQueue(lock_table_, last'.key)[1] =
                LockRequest(EXCLUSIVE, last'.txn)
          /\ Len(B_Status(lock_table_', last'.key).owners) >= 2)
        => LET newOwners == B_Status(lock_table_', last'.key).owners
           IN /\ WaitCount(txn_waits_') =
                    [t \in Txns |-> IF InSeq(newOwners, t)
                                    THEN WaitsAt(txn_waits_, t) - 1
                                    ELSE WaitsAt(txn_waits_, t)]
              /\ last'.appended = ReachingZero(newOwners, txn_waits_)
              /\ ready_txns_' = ready_txns_ \o last'.appended]_vars


\* C18: LockManagerA: a Release(T, K) whose first request of T in K's queue is
\* not at the front removes that request and changes neither ready_txns_ nor
\* any wait counter nor the front request of K.
C18_WaiterReleaseA ==
    [][(policy = "A" /\ Called("Release")
          /\ HasRequest(lock_table_, last'.txn, last'.key)
          /\ GetLockQueue(lock_table_, last'.key)[1].txn_ # last'.txn)
        => /\ ready_txns_' = ready_txns_
           /\ txn_waits_' = txn_waits_
           /\ Len(GetLockQueue(lock_table_', last'.key)) =
                 Len(GetLockQueue(lock_table_, last'.key)) - 1
           /\ GetLockQueue(lock_table_', last'.key)[1] =
                 GetLockQueue(lock_table_, last'.key)[1]]_vars

\* C18 witness: a waiter in the middle of a queue was released; the owner is
\* still the front and another transaction still waits behind it.
C18_Witness ==
    /\ policy = "A"
    /\ ~dup
    /\ last.op = "Release"
    /\ last.at = 2
    /\ Len(GetLockQueue(lock_table_, last.key)) >= 2
    /\ last.appended = << >>
    /\ WaitsAt(txn_waits_, GetLockQueue(lock_table_, last.key)[2].txn_) >= 1

\* C19: either class: every entry of txn_waits_ is at least 1.
C19_WaitEntriesPositive ==
    \A t \in DOMAIN txn_waits_ : txn_waits_[t] >= 1

\* C19 witness: a Release has just promoted a transaction whose counter went
\* down to 1 without reaching zero: it still waits on the other key.
C19_Witness ==
    /\ last.op = "Release"
    /\ last.at = 1
    /\ last.appended = << >>
    /\ Len(GetLockQueue(lock_table_, last.key)) >= 1
    /\ LET t == GetLockQueue(lock_table_, last.key)[1].txn_
       IN /\ t \in DOMAIN txn_waits_
          /\ txn_waits_[t] = 1
          /\ \E k \in Keys : HasRequest(lock_table_, t, k) /\ ~IsOwner(lock_table_, t, k)

\* C20: either class: a lock call leaves ready_txns_ and the wait counter of
\* every other transaction unchanged; the caller's counter is unchanged when
\* the call returns true and 1 higher when it returns false.
C20_LockCallEffects ==
    [][(calls' = calls + 1 /\ last'.op \in {"WriteLock", "ReadLock"})
        => /\ ready_txns_' = ready_txns_
           /\ WaitCount(txn_waits_') =
                 [WaitCount(txn_waits_) EXCEPT
                     ![last'.txn] = IF last'.ret THEN @ ELSE @ + 1]]_vars

\* C20 witness: a lock call that returned false for a transaction that was
\* already waiting on the other key, while another transaction waits too.
C20_Witness ==
    /\ last.op \in {"WriteLock", "ReadLock"}
    /\ last.ret = FALSE
    /\ WaitsAt(txn_waits_, last.txn) = 2
    /\ \E t \in Txns \ {last.txn} : WaitsAt(txn_waits_, t) >= 1

====
